---- MODULE Spec2Model ----
(***************************************************************************)
(* The transaction-lifecycle and bidding loop of preconf_blob_bidder.      *)
(*                                                                         *)
(* Two snapshots of the entry point are modelled, selected by `variant`:   *)
(*   "part_011"  src/unnamed/part_011 (use-payload flag, SendBundle)       *)
(*   "sendblob"  src/cmd/sendblob.go  (private flag, hash-only bids)       *)
(* The fee policy is ExecuteBlobTransaction of src/core/eth/sendtx.go:196. *)
(*                                                                         *)
(* A handler of the select loop is split at its loop iterations: the body  *)
(* of one iteration is one atomic step and `pc` says where the loop is.    *)
(* No other program action is enabled while a handler is in progress.      *)
(***************************************************************************)
EXTENDS Integers, Sequences, FiniteSets, TLC

\* ------------------------------------------------------------------ bounds
MaxHeads == 3          \* head events delivered in one run
MaxEndpoints == 2      \* entries of the --rpc-endpoints list
MaxOffset == 2         \* values of the --offset flag: 1..MaxOffset
MaxNonce == 1          \* the account nonce advances at most this often
MaxTip == 2            \* SuggestGasTipCap answers 0..MaxTip (scaled wei)
MaxBlobFee == 10       \* eip4844.CalcBlobFee answers 1..MaxBlobFee
MaxInitBlock == 1      \* origination blocks 0..MaxInitBlock of entries handed to checkPendingTxs
MaxPending == 1        \* entries of the pendingTxs map handed to checkPendingTxs
GweiScale == 1         \* wei per gwei, scaled down from 10^9 to fit the checker's integers
MaxSubFails == 2       \* failures of the head subscription in one run
MaxDialFails == 1      \* failed dials inside one call of connectWSClient
MaxTime == 2           \* the wall clock reads 0..MaxTime (ms)
MaxWindow == 3         \* bidding windows 1..MaxWindow
MaxDeposit == 2        \* minimum deposits 1..MaxDeposit
MaxSaves == 3          \* save calls triggered in one run
MaxCallers == 2        \* goroutines that call getChainID
MaxCalls == 2          \* calls of getChainID by one caller
MaxChain == 2          \* NetworkID answers 1..MaxChain

\* ------------------------------------------------------- program constants
NUM_BLOBS == 6
MAX_PRECONF_ATTEMPTS == 50
RECONNECT_INTERVAL == 30       \* seconds
MAX_RPC_RETRIES == 5
\* `for i := 0; i < 10; i++` of reconnectWSClient
ReconnectTries == 10
\* time.Duration(36*time.Second).Milliseconds()
DecayWindow == 36 * 1000
\* withdrawAmount := big.NewInt(183269)
withdrawAmount == 183269

\* ------------------------------------------------------------------- state
VARIABLES
    variant,           \* which snapshot of main runs
    usePayload,        \* --use-payload (part_011 only)
    offset,            \* --offset
    rpcEndpointsList,  \* strings.Split(*rpcEndpoints, ","): "up", "down" or "" per entry
    rpcClients,        \* indices into rpcEndpointsList of the clients that connected
    pc,                \* "select" | "originate" | "check" | "dial" | "subscribe" |
                       \* "stopped" (timer) | "crashed" (panic) | "exited" (log.Fatalln) |
                       \* "critical" (log.Crit)
    header,            \* Number of the header being handled
    idx,               \* position of the inner loop (endpoint or client index)
    todo,              \* keys of pendingTxs the range loop has not visited yet
    curTx,             \* txHash of the current range iteration (0: none)
    curBlock,          \* initialBlock of the current range iteration
    pendingTxs,        \* map txHash -> initialBlock
    preconfCount,      \* map txHash -> number of bids
    headNumber,        \* number of the latest block of the chain
    accountNonce,      \* PendingNonceAt of the account
    receiptAns,        \* this round's TransactionReceipt answer per <<txHash, client>>
    blockAns,          \* this round's BlockNumber answer per client (-1: error)
    nextHash,          \* the next fresh transaction hash
    handled,           \* head events handled so far
    roundKind,         \* branch the current/last head event took: "none" | "originate" | "check"
    events,            \* what the current/last handler did, in order
    outstanding,       \* hashes the loop built with the account's current nonce and
                       \* has not removed as confirmed or exhausted
    lastTx,            \* fee fields of the last transaction ExecuteBlobTransaction built
    prevTx,            \* fee fields of the one it built before that
    start,             \* pendingTxs, preconfCount, accountNonce when the round began
    pass,              \* 1: the round's first run of checkPendingTxs, 2: a repeated run
    sub,               \* the subscription the loop holds: its Err() is the one selected on
    live,              \* the subscriptions that are established and deliver into `headers`
    failed,            \* the subscriptions whose Err() holds an error nobody has received
    nextSub,           \* the next fresh subscription
    headerFrom,        \* the subscription that delivered the header being handled
    handledLog,        \* the Numbers of the headers handled, in order
    reconnI,           \* i of the retry loop of reconnectWSClient
    dials,             \* failed dials of the running call of connectWSClient
    wsSlept,           \* seconds that call has slept
    wsRet,             \* what connectWSClient returned last
    now,               \* time.Now().UnixMilli()
    lastDecayStart,    \* map txHash -> decayStart of the latest bid for it
    bidderUp,          \* whether the bidder node accepts a SendBid
    connPc,            \* connectRPCClientWithRetries: "idle" | "dial" | "returned" | "critical"
    maxRetries,        \* its maxRetries parameter
    connI,             \* i of its loop
    connLog,           \* the outcomes of its DialContext calls, in order
    connSleeps,        \* the durations of its Sleep calls, in seconds, in order
    connRet,           \* what it returned: "none" | "client" | "nil"
    wVariant,          \* which deposit/withdraw workflow runs
    wPc,               \* where it is: "getMin" | "deposit" | "withdraw" | "done" | "fatal"
    minDeposit,        \* the amount of the last successful minimum-deposit lookup (0: none)
    currentWindow,     \* getCurrentWindow of the block tracker
    depositWindow,     \* the window of the successful deposit (0: none)
    depositedAmount,   \* the amount of the deposit request (0: none)
    withdrawWindow,    \* the window named by the withdrawal that was issued (0: none)
    auditFile,         \* per audit file, the JSON array it decodes to
    saver,             \* per save call: where it is, what it decoded, its kind
    callerPc,          \* the code that triggers saves: "running" | "blocked"
    nextRec,           \* the next audit record
    execPc,            \* one ExecuteBlobTransaction call: "idle" | "spawn" | "wait" |
                       \* "build" | "returned"
    task,              \* per fetch goroutine: its state, error and answer
    execRet,           \* what the call returned: the error and the transaction
    chainID,           \* the package variable chainID (0: nil)
    chainIDErr,        \* the package variable chainIDErr
    chainIDOnce,       \* the sync.Once: "new" | "running" | "done"
    lookups,           \* NetworkID calls made so far
    callPc,            \* per caller of getChainID: "idle" | "do" | "lookup" | "return"
    calls,             \* per caller, the calls it has started
    chainLog           \* what the calls of getChainID returned, in order

connVars == <<connPc, maxRetries, connI, connLog, connSleeps, connRet>>

winVars == <<wVariant, wPc, minDeposit, currentWindow, depositWindow, depositedAmount,
             withdrawWindow>>

auditVars == <<auditFile, saver, callerPc, nextRec>>

fetchVars == <<execPc, task, execRet>>

onceVars == <<chainID, chainIDErr, chainIDOnce, lookups, callPc, calls, chainLog>>

\* the state of the functions that run as tasks
taskVars == <<auditVars, fetchVars, onceVars>>

\* the state of the programs and functions that run apart from the select loop
sideVars == <<connVars, winVars, taskVars>>

subVars == <<sub, live, failed, nextSub, headerFrom, handledLog, reconnI, dials,
             wsSlept, wsRet>>

envVars == <<now, lastDecayStart, bidderUp>>

loopVars == <<variant, usePayload, offset, rpcEndpointsList, rpcClients, pc, header,
              idx, todo, curTx, curBlock, pendingTxs, preconfCount, headNumber,
              accountNonce, receiptAns, blockAns, nextHash, handled, roundKind,
              events, outstanding, lastTx, prevTx, start, pass, subVars, envVars>>

vars == <<loopVars, sideVars>>

cfgVars == <<variant, usePayload, offset, rpcEndpointsList, rpcClients>>

\* ----------------------------------------------------------------- helpers
Min(a, b) == IF a < b THEN a ELSE b

EmptyMap == [h \in {} |-> 0]

\* delete(m, k)
Delete(m, k) == [h \in (DOMAIN m) \ {k} |-> m[h]]

\* m[k] = v
Put(m, k, v) == [h \in (DOMAIN m) \cup {k} |-> IF h = k THEN v ELSE m[h]]

\* m[k] of a Go map: the zero value when the key is absent
Get(m, k) == IF k \in DOMAIN m THEN m[k] ELSE 0

NoTx == [nonce |-> -1, gasTipCap |-> 0, gasFeeCap |-> 0, blobFeeCap |-> 0,
         gasTipCapAdjusted |-> 0, blobFee |-> 0]

Event(kind, tx, who, block, res) ==
    [kind |-> kind, tx |-> tx, who |-> who, block |-> block, res |-> res]

\* the indices of the endpoints whose dial succeeded, in list order
RECURSIVE Connected(_, _)
Connected(list, i) ==
    IF i > Len(list) THEN <<>>
    ELSE (IF list[i] = "up" THEN <<i>> ELSE <<>>) \o Connected(list, i + 1)

EndpointLists(kinds) ==
    UNION {[1..n -> kinds] : n \in 1..MaxEndpoints}

\* ------------------------------------------------------------- fee policy
\* the ceiling of the adjusted priority fee, 10 gwei
maxPriorityFee == 10 * GweiScale

\* what SuggestGasPrice may answer: below and above any doubled tip
GasPrices == {1, 2 * maxPriorityFee + 1}

\* the scaling applied to the chain-computed fee itself, without the added unit
BlobFeeCapNoUnit(blobFee) == (blobFee * 110) \div 100

\* blobFeeCap: the chain-computed fee plus one, then 110/100 with integer division
BlobFeeCap(blobFee) == ((blobFee + 1) * 110) \div 100

\* gasTipCapAdjusted: the suggested tip times the blob count, capped at the ceiling
GasTipCapAdjusted(gasTipCap, numBlobs) ==
    Min(gasTipCap * numBlobs, maxPriorityFee)

\* gasFeeCapAdjusted: twice the adjusted tip, plus one when the suggested price
\* does not exceed it
GasFeeCapAdjusted(gasTipCap, gasFeeCap, numBlobs) ==
    LET doubled == GasTipCapAdjusted(gasTipCap, numBlobs) * 2
    IN  IF gasFeeCap <= doubled THEN doubled + 1 ELSE doubled

\* the fee fields of the BlobTx that ExecuteBlobTransaction signs, with the
\* adjusted tip and the chain-computed blob fee they were derived from
ExecuteBlobTransaction(nonce, gasTipCap, gasFeeCap, blobFee, numBlobs) ==
    [nonce      |-> nonce,
     gasTipCap  |-> 0,
     gasFeeCap  |-> GasFeeCapAdjusted(gasTipCap, gasFeeCap, numBlobs),
     blobFeeCap |-> BlobFeeCap(blobFee),
     gasTipCapAdjusted |-> GasTipCapAdjusted(gasTipCap, numBlobs),
     blobFee    |-> blobFee]

\* the blob counts a caller passes: one blob, and NUM_BLOBS as main does
BlobCounts == {1, NUM_BLOBS}

\* --------------------------------------------------------------- the bid
\* sendPreconfBid: one SendBid call for `tx`, valid for `blockNumber`; `by` is
\* "hash" for a string input and "payload" for a *types.Transaction input
\* what SendBid answers: "failed" stands for a non-nil error
BidAck == IF bidderUp THEN "sent" ELSE "failed"

\* a bid whose decay window is 24 seconds
sendPreconfBidShort(tx, who, blockNumber, by) ==
    [kind |-> "bid", tx |-> tx, who |-> who, block |-> blockNumber, res |-> by,
     decayStart |-> now,
     decayEnd   |-> now + 24 * 1000,
     ack        |-> BidAck]

sendPreconfBid(tx, who, blockNumber, by) ==
    [kind |-> "bid", tx |-> tx, who |-> who, block |-> blockNumber, res |-> by,
     decayStart |-> now,
     decayEnd   |-> now + DecayWindow,
     ack        |-> BidAck]

\* a failed SendBid ends the process
AfterBidFatal(ack, next) == IF ack = "failed" THEN "critical" ELSE next

\* where the caller of sendPreconfBid continues: sendPreconfBid returns
\* nothing, a SendBid error is logged with log.Warn
AfterBid(ack, next) == next

\* -------------------------------------------------------------------- Init
Clients == 1..Len(rpcClients)

ConfigInit ==
    /\ variant \in {"part_011", "sendblob"}
    /\ offset \in 1..MaxOffset
    /\ IF variant = "part_011"
       THEN /\ usePayload \in BOOLEAN
            /\ rpcEndpointsList \in EndpointLists({"up", "down", ""})
       ELSE /\ usePayload = FALSE
            /\ rpcEndpointsList \in EndpointLists({"up"})
    /\ rpcClients = Connected(rpcEndpointsList, 1)

\* the audit files: blobs.json, bid.json and response.json under data/
AuditFiles == {"blobs", "bid", "response"}

\* no connector call is running
ConnIdle ==
    /\ connPc = "idle"
    /\ maxRetries = MAX_RPC_RETRIES
    /\ connI = 0
    /\ connLog = <<>>
    /\ connSleeps = <<>>
    /\ connRet = "none"

\* no save has been triggered: the files do not exist yet
AuditIdle ==
    /\ auditFile = [f \in AuditFiles |-> <<>>]
    /\ saver = EmptyMap
    /\ callerPc = "running"
    /\ nextRec = 1

\* the goroutines of one ExecuteBlobTransaction call: the nonce fetch, the
\* fee-suggestion fetch and the two fetches that one starts in turn
Tasks == {"nonce", "fees", "tip", "price"}

NoTask == [st |-> "none", err |-> FALSE, val |-> 0]

\* no ExecuteBlobTransaction call is running
FetchIdle ==
    /\ execPc = "idle"
    /\ task = [t \in Tasks |-> NoTask]
    /\ execRet = [err |-> "none", tx |-> NoTx]

\* the callers of getChainID
Callers == 1..MaxCallers

\* the package variables of sendtx.go before the first getChainID call
OnceIdle ==
    /\ chainID = 0
    /\ chainIDErr = FALSE
    /\ chainIDOnce = "new"
    /\ lookups = 0
    /\ callPc = [c \in Callers |-> "idle"]
    /\ calls = [c \in Callers |-> 0]
    /\ chainLog = <<>>

TasksIdle ==
    /\ AuditIdle
    /\ FetchIdle
    /\ OnceIdle

\* no deposit/withdraw workflow is running
WindowIdle ==
    /\ wVariant = "none"
    /\ wPc = "done"
    /\ minDeposit = 0
    /\ currentWindow = 0
    /\ depositWindow = 0
    /\ depositedAmount = 0
    /\ withdrawWindow = 0

\* nothing runs apart from the select loop
SideIdle ==
    /\ ConnIdle
    /\ WindowIdle
    /\ TasksIdle

LoopInit ==
    /\ pc = "select"
    /\ header = 0
    /\ idx = 0
    /\ todo = {}
    /\ curTx = 0
    /\ curBlock = 0
    /\ headNumber = 0
    /\ accountNonce = 0
    /\ receiptAns = [k \in {} |-> "notfound"]
    /\ blockAns = [c \in {} |-> 0]
    /\ handled = 0
    /\ roundKind = "none"
    /\ events = <<>>
    /\ lastTx = NoTx
    /\ prevTx = NoTx
    /\ pass = 1
    /\ sub = 1
    /\ live = {1}
    /\ failed = {}
    /\ nextSub = 2
    /\ headerFrom = 0
    /\ handledLog = <<>>
    /\ reconnI = 0
    /\ dials = 0
    /\ wsSlept = 0
    /\ wsRet = [returned |-> TRUE, client |-> TRUE, err |-> FALSE]
    /\ now = 0
    /\ lastDecayStart = EmptyMap
    /\ bidderUp = TRUE

\* the state main builds before it enters the select loop
Init ==
    /\ ConfigInit
    /\ LoopInit
    /\ SideIdle
    /\ pendingTxs = EmptyMap
    /\ preconfCount = EmptyMap
    /\ nextHash = 1
    /\ outstanding = {}
    /\ start = [pending |-> EmptyMap, count |-> EmptyMap, nonce |-> 0]

\* counters an entry can have when checkPendingTxs is entered
InitCounts == {0, 1, MAX_PRECONF_ATTEMPTS - 2, MAX_PRECONF_ATTEMPTS - 1}

\* the loop entered with the maps checkPendingTxs takes as parameters drawn
\* from bounded sets: every entry was built with nonce 0
InitCheck ==
    /\ ConfigInit
    /\ LoopInit
    /\ SideIdle
    /\ \E keys \in SUBSET (1..MaxPending) :
          /\ pendingTxs \in [keys -> 0..MaxInitBlock]
          /\ preconfCount \in [keys -> InitCounts]
          /\ outstanding = keys
    /\ nextHash = MaxPending + 1
    /\ start = [pending |-> pendingTxs, count |-> preconfCount, nonce |-> 0]

\* ----------------------------------------------------------------- actions
Running == pc \in {"select", "originate", "check"}

\* case header := <-headers
ReceiveHeader ==
    /\ UNCHANGED sideVars
    /\ pc = "select"
    /\ handled < MaxHeads
    /\ \E g \in live : headerFrom' = g
    /\ handledLog' = Append(handledLog, headNumber + 1)
    /\ UNCHANGED <<sub, live, failed, nextSub, reconnI, dials, wsSlept, wsRet, envVars>>
    /\ headNumber' = headNumber + 1
    /\ header' = headNumber + 1
    /\ handled' = handled + 1
    /\ events' = <<>>
    /\ pass' = 1
    /\ start' = [pending |-> pendingTxs, count |-> preconfCount, nonce |-> accountNonce]
    /\ curTx' = 0
    /\ curBlock' = 0
    /\ IF DOMAIN pendingTxs = {}
       THEN /\ pc' = "originate"
            /\ roundKind' = "originate"
            /\ idx' = 1
            /\ todo' = {}
            /\ UNCHANGED <<receiptAns, blockAns>>
       ELSE /\ pc' = "check"
            /\ roundKind' = "check"
            /\ idx' = 0
            /\ todo' = DOMAIN pendingTxs
            /\ receiptAns' \in [(DOMAIN pendingTxs) \X Clients ->
                                   {"receipt", "notfound", "error"}]
            /\ blockAns' \in [Clients -> {-1, headNumber, headNumber + 1}]
    /\ UNCHANGED <<cfgVars, pendingTxs, preconfCount, accountNonce, nextHash,
                   outstanding, lastTx, prevTx>>

\* where the endpoint loop goes after the iteration for endpoint idx
AfterEndpoint ==
    /\ idx' = idx + 1
    /\ pc' = IF idx = Len(rpcEndpointsList) THEN "select" ELSE "originate"

\* the same after an iteration that called sendPreconfBid
AfterEndpointBid ==
    /\ idx' = idx + 1
    /\ pc' = AfterBid(BidAck, IF idx = Len(rpcEndpointsList) THEN "select" ELSE "originate")

\* one iteration of `for _, rpcEndpoint := range rpcEndpointsList` in part_011
OriginatePart011 ==
    /\ UNCHANGED sideVars
    /\ pc = "originate"
    /\ variant = "part_011"
    /\ idx <= Len(rpcEndpointsList)
    /\ UNCHANGED <<subVars, now, bidderUp>>
    /\ UNCHANGED <<cfgVars, header, todo, curTx, curBlock, pendingTxs, preconfCount,
                   headNumber, accountNonce, receiptAns, blockAns, handled,
                   roundKind, lastTx, prevTx, start, pass>>
    /\ LET blockNumber == header + offset
           build == Event("build", nextHash, idx, blockNumber, "ok")
       IN
       \/ \* if rpcEndpoint == "" { continue }
          /\ rpcEndpointsList[idx] = ""
          /\ AfterEndpoint
          /\ UNCHANGED <<nextHash, events, outstanding, lastDecayStart>>
       \/ \* ExecuteBlobTransaction fails: signedTx is nil and
          \* signedTx.GasTipCap() dereferences it
          /\ rpcEndpointsList[idx] # ""
          /\ pc' = "crashed"
          /\ events' = Append(events, Event("build", 0, idx, 0, "err"))
          /\ UNCHANGED <<idx, nextHash, outstanding, lastDecayStart>>
       \/ \* ExecuteBlobTransaction returns a signed transaction
          /\ rpcEndpointsList[idx] # ""
          /\ nextHash' = nextHash + 1
          /\ outstanding' = outstanding \cup {nextHash}
          /\ IF usePayload
             THEN /\ events' = events \o
                       <<build, sendPreconfBid(nextHash, idx, blockNumber, "payload")>>
                  /\ lastDecayStart' = Put(lastDecayStart, nextHash, now)
                  /\ AfterEndpointBid
             ELSE \E res \in {"ok", "underpriced", "err", "fatal"} :
                     IF res = "fatal"
                     THEN /\ events' = events \o
                               <<build, Event("bundle", nextHash, idx, blockNumber, res)>>
                          /\ pc' = "exited"
                          /\ UNCHANGED <<idx, lastDecayStart>>
                     ELSE /\ events' = events \o
                               <<build, Event("bundle", nextHash, idx, blockNumber, res),
                                 sendPreconfBid(nextHash, idx, blockNumber, "hash")>>
                          /\ lastDecayStart' = Put(lastDecayStart, nextHash, now)
                          /\ AfterEndpointBid

\* one iteration of `for _, rpcEndpoint := range rpcEndpointsList` in cmd/sendblob.go
OriginateSendblob ==
    /\ UNCHANGED sideVars
    /\ pc = "originate"
    /\ variant = "sendblob"
    /\ idx <= Len(rpcEndpointsList)
    /\ UNCHANGED <<subVars, now, bidderUp>>
    /\ UNCHANGED <<cfgVars, header, todo, curTx, curBlock, pendingTxs, headNumber,
                   accountNonce, receiptAns, blockAns, handled, roundKind,
                   lastTx, prevTx, start, pass>>
    /\ LET blockNumber == header + offset
       IN
       \/ \* err != nil: logged
          /\ events' = Append(events, Event("build", 0, idx, 0, "err"))
          /\ AfterEndpoint
          /\ UNCHANGED <<preconfCount, nextHash, outstanding, lastDecayStart>>
       \/ /\ preconfCount' = Put(preconfCount, nextHash, 1)
          /\ nextHash' = nextHash + 1
          /\ outstanding' = outstanding \cup {nextHash}
          /\ events' = events \o
                <<Event("build", nextHash, idx, blockNumber, "ok"),
                  sendPreconfBid(nextHash, idx, blockNumber, "hash")>>
          /\ lastDecayStart' = Put(lastDecayStart, nextHash, now)
          /\ AfterEndpointBid

\* `for txHash, initialBlock := range pendingTxs`: the next key, in any order,
\* or the end of checkPendingTxs
CheckRange ==
    /\ UNCHANGED sideVars
    /\ pc = "check"
    /\ curTx = 0
    /\ IF todo = {}
       THEN /\ pc' = "select"
            /\ UNCHANGED <<todo, curTx, curBlock, idx>>
       ELSE /\ \E h \in todo :
                 /\ curTx' = IF Len(rpcClients) = 0 THEN 0 ELSE h
                 /\ curBlock' = pendingTxs[h]
                 /\ todo' = todo \ {h}
            /\ idx' = 1
            /\ pc' = "check"
    /\ UNCHANGED <<subVars, envVars>>
    /\ UNCHANGED <<cfgVars, header, pendingTxs, preconfCount, headNumber, accountNonce,
                   receiptAns, blockAns, nextHash, handled, roundKind, events,
                   outstanding, lastTx, prevTx, start, pass>>

\* the retirement test with > in place of >=
ExhaustedLate(count) == count > MAX_PRECONF_ATTEMPTS

\* preconfCount[txHash] >= MAX_PRECONF_ATTEMPTS
Exhausted(count) == count >= MAX_PRECONF_ATTEMPTS

\* the client loop stops at the first failed receipt lookup
LoopEndsOnError(ans, i) == i = Len(rpcClients) \/ ans = "error"

\* whether the iteration for client i was the last of `range clients`: no
\* answer makes the loop break
LoopEnds(ans, i) == i = Len(rpcClients)

\* one iteration of `for _, client := range clients` for the entry curTx
CheckClient ==
    /\ UNCHANGED sideVars
    /\ pc = "check"
    /\ curTx # 0
    /\ idx <= Len(rpcClients)
    /\ idx' = idx + 1
    /\ curTx' = IF LoopEnds(receiptAns[<<curTx, idx>>], idx) THEN 0 ELSE curTx
    /\ UNCHANGED <<subVars, now, bidderUp>>
    /\ UNCHANGED <<cfgVars, header, todo, curBlock, headNumber, accountNonce,
                   receiptAns, blockAns, nextHash, handled, roundKind,
                   lastTx, prevTx, start, pass>>
    /\ LET ans == receiptAns[<<curTx, idx>>]
           currentBlockNumber == blockAns[idx]
           poll == Event("poll", curTx, idx, 0, ans)
           count == Get(preconfCount, curTx) + 1
       IN
       CASE ans = "receipt" ->
               \* the transaction is confirmed
               /\ pendingTxs' = Delete(pendingTxs, curTx)
               /\ preconfCount' = Delete(preconfCount, curTx)
               /\ outstanding' = outstanding \ {curTx}
               /\ events' = events \o <<poll, Event("confirmed", curTx, idx, 0, "ok")>>
               /\ UNCHANGED <<pc, lastDecayStart>>
         [] ans = "error" ->
               /\ events' = Append(events, poll)
               /\ UNCHANGED <<pc, pendingTxs, preconfCount, outstanding, lastDecayStart>>
         [] ans = "notfound" /\ currentBlockNumber = -1 ->
               /\ events' = Append(events, poll)
               /\ UNCHANGED <<pc, pendingTxs, preconfCount, outstanding, lastDecayStart>>
         [] ans = "notfound" /\ currentBlockNumber # -1 /\ currentBlockNumber <= curBlock ->
               /\ events' = Append(events, poll)
               /\ UNCHANGED <<pc, pendingTxs, preconfCount, outstanding, lastDecayStart>>
         [] ans = "notfound" /\ currentBlockNumber > curBlock ->
               \* resend the bid, count it, retire the entry at the maximum
               /\ lastDecayStart' = Put(lastDecayStart, curTx, now)
               /\ pc' = AfterBid(BidAck, pc)
               /\ IF Exhausted(count)
                  THEN /\ pendingTxs' = Delete(pendingTxs, curTx)
                       /\ preconfCount' = Delete(preconfCount, curTx)
                       /\ outstanding' = outstanding \ {curTx}
                       /\ events' = events \o
                             <<poll, sendPreconfBid(curTx, idx, currentBlockNumber + 1, "hash"),
                               Event("exhausted", curTx, idx, count, "ok")>>
                  ELSE /\ pendingTxs' = pendingTxs
                       /\ preconfCount' = Put(preconfCount, curTx, count)
                       /\ outstanding' = outstanding
                       /\ events' = events \o
                             <<poll, sendPreconfBid(curTx, idx, currentBlockNumber + 1, "hash")>>

\* case <-timer.C
TimerFires ==
    /\ UNCHANGED sideVars
    /\ pc = "select"
    /\ pc' = "stopped"
    /\ UNCHANGED <<subVars, envVars>>
    /\ UNCHANGED <<cfgVars, header, idx, todo, curTx, curBlock, pendingTxs, preconfCount,
                   headNumber, accountNonce, receiptAns, blockAns, nextHash, handled,
                   roundKind, events, outstanding, lastTx, prevTx, start, pass>>

\* the chain includes a transaction of the account: its nonce advances
NonceAdvance ==
    /\ UNCHANGED sideVars
    /\ Running
    /\ accountNonce < MaxNonce
    /\ accountNonce' = accountNonce + 1
    /\ outstanding' = {}
    /\ UNCHANGED <<subVars, envVars>>
    /\ UNCHANGED <<cfgVars, pc, header, idx, todo, curTx, curBlock, pendingTxs,
                   preconfCount, headNumber, receiptAns, blockAns, nextHash, handled,
                   roundKind, events, lastTx, prevTx, start, pass>>

\* checkPendingTxs called once more in the same round: no new head event, the
\* observers answer as before
CheckAgain ==
    /\ UNCHANGED sideVars
    /\ pc = "select"
    /\ roundKind = "check"
    /\ pass = 1
    /\ pass' = 2
    /\ pc' = "check"
    /\ todo' = DOMAIN pendingTxs
    /\ curTx' = 0
    /\ idx' = 0
    /\ events' = <<>>
    /\ start' = [pending |-> pendingTxs, count |-> preconfCount, nonce |-> accountNonce]
    /\ UNCHANGED <<subVars, envVars>>
    /\ UNCHANGED <<cfgVars, header, curBlock, pendingTxs, preconfCount, headNumber,
                   accountNonce, receiptAns, blockAns, nextHash, handled, roundKind,
                   outstanding, lastTx, prevTx>>

\* one call of ExecuteBlobTransaction for the account: the nonce, the fee
\* suggestions and the parent header's blob fee are what the network answers
BuildAttempt ==
    /\ UNCHANGED sideVars
    /\ pc = "select"
    /\ \E gasTipCap \in 0..MaxTip, gasFeeCap \in GasPrices, blobFee \in 1..MaxBlobFee,
          numBlobs \in BlobCounts :
          lastTx' = ExecuteBlobTransaction(accountNonce, gasTipCap, gasFeeCap,
                                           blobFee, numBlobs)
    /\ prevTx' = lastTx
    /\ UNCHANGED <<subVars, envVars>>
    /\ UNCHANGED <<cfgVars, pc, header, idx, todo, curTx, curBlock, pendingTxs,
                   preconfCount, headNumber, accountNonce, receiptAns, blockAns,
                   nextHash, handled, roundKind, events, outstanding, start, pass>>

\* ------------------------------------------------------- head subscription
\* The subscription `g` fails: by the contract of ethereum.Subscription it
\* stops delivering into `headers` and then sends one value on its Err().
SubscriptionFails ==
    /\ UNCHANGED sideVars
    /\ pc \in {"select", "originate", "check", "dial", "subscribe"}
    /\ sub <= MaxSubFails
    /\ \E g \in live :
          /\ live' = live \ {g}
          /\ failed' = failed \cup {g}
    /\ UNCHANGED <<sub, nextSub, headerFrom, handledLog, reconnI, dials, wsSlept,
                   wsRet, envVars>>
    /\ UNCHANGED <<cfgVars, pc, header, idx, todo, curTx, curBlock, pendingTxs,
                   preconfCount, headNumber, accountNonce, receiptAns, blockAns,
                   nextHash, handled, roundKind, events, outstanding, lastTx,
                   prevTx, start, pass>>

\* case err := <-sub.Err(): enter reconnectWSClient, whose first iteration
\* calls connectWSClient
SubErr ==
    /\ UNCHANGED sideVars
    /\ pc = "select"
    /\ sub \in failed
    /\ failed' = failed \ {sub}
    /\ pc' = "dial"
    /\ reconnI' = 0
    /\ dials' = 0
    /\ wsSlept' = 0
    /\ UNCHANGED <<sub, live, nextSub, headerFrom, handledLog, wsRet, envVars>>
    /\ UNCHANGED <<cfgVars, header, idx, todo, curTx, curBlock, pendingTxs,
                   preconfCount, headNumber, accountNonce, receiptAns, blockAns,
                   nextHash, handled, roundKind, events, outstanding, lastTx,
                   prevTx, start, pass>>

\* connectWSClient hands the dial error to its caller
RetryDialGivesUp == [returned |-> TRUE, client |-> FALSE, err |-> TRUE]

\* what connectWSClient does when NewGethClient fails: it returns the result
\* of calling itself again, that is, it does not return yet
RetryDial == [returned |-> FALSE, client |-> FALSE, err |-> FALSE]

\* one NewGethClient call of connectWSClient: on an error sleep
\* RECONNECT_INTERVAL and call connectWSClient again, otherwise return the
\* client and a nil error
connectWSClient ==
    /\ UNCHANGED sideVars
    /\ pc = "dial"
    /\ \/ /\ dials < MaxDialFails
          /\ dials' = dials + 1
          /\ wsSlept' = wsSlept + RECONNECT_INTERVAL
          /\ wsRet' = RetryDial
          /\ pc' = IF RetryDial.returned THEN "subscribe" ELSE "dial"
       \/ /\ wsRet' = [returned |-> TRUE, client |-> TRUE, err |-> FALSE]
          /\ pc' = "subscribe"
          /\ UNCHANGED <<dials, wsSlept>>
    /\ UNCHANGED <<sub, live, failed, nextSub, headerFrom, handledLog, reconnI, envVars>>
    /\ UNCHANGED <<cfgVars, header, idx, todo, curTx, curBlock, pendingTxs,
                   preconfCount, headNumber, accountNonce, receiptAns, blockAns,
                   nextHash, handled, roundKind, events, outstanding, lastTx,
                   prevTx, start, pass>>

\* reconnectWSClient gives up at the first failed iteration
AfterSubscribeGiveUp(ok, i) == IF ok THEN "select" ELSE "critical"

\* reconnectWSClient goes on to its next iteration after a success as well
AfterSubscribeNoReturn(ok, i) ==
    IF i + 1 < ReconnectTries THEN "dial"
    ELSE IF ok THEN "select" ELSE "critical"

\* where reconnectWSClient goes after iteration i, given whether its
\* connect-and-subscribe succeeded: return to the select loop, the next
\* iteration, or log.Crit after the last one
AfterSubscribe(ok, i) ==
    IF ok THEN "select"
    ELSE IF i + 1 < ReconnectTries THEN "dial" ELSE "critical"

\* the rest of one iteration of reconnectWSClient, after connectWSClient
\* returned: SubscribeNewHead on the new client with the same `headers` channel
reconnectWSClient ==
    /\ UNCHANGED sideVars
    /\ pc = "subscribe"
    /\ \E subscribed \in BOOLEAN :
          LET ok == ~wsRet.err /\ subscribed
          IN  /\ pc' = AfterSubscribe(ok, reconnI)
              /\ IF ok
                 THEN /\ sub' = nextSub
                      /\ live' = live \cup {nextSub}
                      /\ nextSub' = nextSub + 1
                 ELSE UNCHANGED <<sub, live, nextSub>>
    /\ reconnI' = IF pc' = "select" THEN reconnI ELSE reconnI + 1
    /\ dials' = 0
    /\ wsSlept' = 0
    /\ UNCHANGED <<failed, headerFrom, handledLog, wsRet, envVars>>
    /\ UNCHANGED <<cfgVars, header, idx, todo, curTx, curBlock, pendingTxs,
                   preconfCount, headNumber, accountNonce, receiptAns, blockAns,
                   nextHash, handled, roundKind, events, outstanding, lastTx,
                   prevTx, start, pass>>

\* ------------------------------------------------------ endpoint connector
\* math.Pow(2, float64(i))
RECURSIVE Pow2(_)
Pow2(i) == IF i = 0 THEN 1 ELSE 2 * Pow2(i - 1)

\* the argument of time.Sleep after the failed attempt i, in seconds
Backoff(i) == RECONNECT_INTERVAL * Pow2(i)

\* how connectRPCClientWithRetries ends after its loop: part_011 logs an error
\* and returns nil, cmd/sendblob.go calls log.Crit
AfterRetries(v) == IF v = "part_011" THEN "returned" ELSE "critical"

\* one iteration of `for i := 0; i < maxRetries; i++`: a DialContext call
\* that succeeds, is refused, or runs into the timeout of its context
connectRPCClientWithRetries ==
    /\ connPc = "dial"
    /\ connI < maxRetries
    /\ \E res \in {"ok", "refused", "timeout"} :
          /\ connLog' = Append(connLog, res)
          /\ IF res = "ok"
             THEN /\ connRet' = "client"
                  /\ connPc' = "returned"
                  /\ UNCHANGED <<connI, connSleeps>>
             ELSE /\ connSleeps' = Append(connSleeps, Backoff(connI))
                  /\ connI' = connI + 1
                  /\ UNCHANGED <<connRet, connPc>>
    /\ UNCHANGED <<maxRetries, winVars, loopVars, taskVars>>

\* the loop condition fails: every attempt has failed
RetriesExhausted ==
    /\ connPc = "dial"
    /\ connI >= maxRetries
    /\ connPc' = AfterRetries(variant)
    /\ connRet' = IF AfterRetries(variant) = "returned" THEN "nil" ELSE connRet
    /\ UNCHANGED <<maxRetries, connI, connLog, connSleeps, winVars, loopVars, taskVars>>

\* ----------------------------------------------- deposit/withdraw workflow
\* the workflows: part_001 (TestBiddingWindow), main.go, and main of
\* cmd/bidwindowmevcommit.go, which talks to the contracts directly
Workflows == {"TestBiddingWindow", "main.go", "bidwindowmevcommit"}

\* where a workflow goes when a step reports an error it does not survive:
\* t.Fatalf and log.Fatalf end the process, main.go prints and returns
Abort(v) == IF v = "main.go" THEN "done" ELSE "fatal"

\* the minimum-deposit lookup before the deposit step (0: it failed)
GetMinDeposit ==
    /\ wPc = "getMin"
    /\ \E amount \in 0..MaxDeposit :
          /\ minDeposit' = amount
          /\ wPc' = CASE amount # 0 -> "deposit"
                      [] amount = 0 /\ wVariant = "main.go" -> "deposit"
                      [] amount = 0 /\ wVariant = "TestBiddingWindow" -> "fatal"
                      [] amount = 0 /\ wVariant = "bidwindowmevcommit" -> "done"
    /\ UNCHANGED <<wVariant, currentWindow, depositWindow, depositedAmount,
                   withdrawWindow, connVars, loopVars, taskVars>>

\* DepositMinBidAmount: its own GetMinDeposit, then Deposit of that amount;
\* the answer names the window (0: the call failed)
DepositMinBidAmount ==
    /\ wPc = "deposit"
    /\ wVariant \in {"TestBiddingWindow", "main.go"}
    /\ \E amount \in 0..MaxDeposit, window \in 0..MaxWindow :
          IF amount = 0 \/ window = 0
          THEN /\ wPc' = Abort(wVariant)
               /\ UNCHANGED <<depositWindow, depositedAmount>>
          ELSE /\ wPc' = "withdraw"
               /\ depositWindow' = window
               /\ depositedAmount' = amount
    /\ UNCHANGED <<wVariant, minDeposit, currentWindow, withdrawWindow, connVars, loopVars, taskVars>>

\* PART 2 and 2.5 of main in cmd/bidwindowmevcommit.go: the transaction
\* depositForSpecificWindow(currentWindow) with value minDeposit, WaitMined,
\* the receipt's status, then the getDeposit call
depositForSpecificWindow ==
    /\ wPc = "deposit"
    /\ wVariant = "bidwindowmevcommit"
    /\ \E res \in {"sendErr", "mineErr", "reverted", "mined", "readErr"} :
          CASE res \in {"sendErr", "mineErr"} ->
                  /\ wPc' = "fatal"
                  /\ UNCHANGED <<depositWindow, depositedAmount>>
            [] res = "reverted" ->
                  \* receipt.Status # 1: "Transaction failed" is printed
                  /\ wPc' = "withdraw"
                  /\ UNCHANGED <<depositWindow, depositedAmount>>
            [] res \in {"mined", "readErr"} ->
                  /\ wPc' = IF res = "mined" THEN "withdraw" ELSE "fatal"
                  /\ depositWindow' = currentWindow
                  /\ depositedAmount' = minDeposit
    /\ UNCHANGED <<wVariant, minDeposit, currentWindow, withdrawWindow, connVars, loopVars, taskVars>>

\* the window the withdrawal names: the windowNumber the deposit returned,
\* or the literal that main of cmd/bidwindowmevcommit.go passes
WithdrawArg ==
    IF wVariant = "bidwindowmevcommit" THEN withdrawAmount ELSE depositWindow

\* WithdrawFunds(cfg, windowNumber), or the transaction
\* withdrawBidderAmountFromWindow(fromAddress, withdrawAmount)
WithdrawFunds ==
    /\ wPc = "withdraw"
    /\ withdrawWindow' = WithdrawArg
    /\ \E ok \in BOOLEAN : wPc' = IF ok THEN "done" ELSE Abort(wVariant)
    /\ UNCHANGED <<wVariant, minDeposit, currentWindow, depositWindow, depositedAmount,
                   connVars, loopVars, taskVars>>

\* ------------------------------------------------------------ audit records
\* the file a save function is called with
FileOf(kind) ==
    CASE kind = "saveTransactionParameters" -> "blobs"
      [] kind = "saveBidRequest" -> "bid"
      [] kind = "saveBidResponses" -> "response"

\* whether the call is a go statement: part_008 `go saveTransactionParameters`,
\* part_003 `saveBidRequest(...)` and `go saveBidResponses(...)`
Detached(kind) == kind # "saveBidRequest"

SaveKinds == {"saveTransactionParameters", "saveBidRequest", "saveBidResponses"}

\* the save calls that have not returned
Saving == {s \in DOMAIN saver : saver[s].pc # "returned"}

\* the caller reaches a save call: ExecuteBlobTransaction at its end, SendBid
\* after the request was sent and after the response stream ended
TriggerSave ==
    /\ callerPc = "running"
    /\ nextRec <= MaxSaves
    /\ \E kind \in SaveKinds :
          /\ saver' = Put(saver, nextRec,
                          [pc |-> "open", local |-> <<>>, kind |-> kind, ok |-> FALSE])
          /\ callerPc' = IF Detached(kind) THEN "running" ELSE "blocked"
    /\ nextRec' = nextRec + 1
    /\ UNCHANGED <<auditFile, loopVars, connVars, winVars, fetchVars, onceVars>>

\* the save function returns; a caller that called it without `go` continues
SaveReturns(s, ok) ==
    /\ saver' = [saver EXCEPT ![s].pc = "returned", ![s].ok = ok]
    /\ callerPc' = IF Detached(saver[s].kind) THEN callerPc ELSE "running"

\* os.MkdirAll and os.OpenFile(filename, O_RDWR|O_CREATE): on an error the
\* function logs and returns
SaveOpen ==
    /\ \E s \in Saving :
          /\ saver[s].pc = "open"
          /\ \/ /\ saver' = [saver EXCEPT ![s].pc = "decode"]
                /\ UNCHANGED callerPc
             \/ SaveReturns(s, FALSE)
    /\ UNCHANGED <<auditFile, nextRec, loopVars, connVars, winVars, fetchVars, onceVars>>

\* decoder.Decode(&existing): the array in the file, or nothing at EOF
SaveDecode ==
    /\ \E s \in Saving :
          /\ saver[s].pc = "decode"
          /\ saver' = [saver EXCEPT ![s].pc = "truncate",
                                    ![s].local = auditFile[FileOf(saver[s].kind)]]
    /\ UNCHANGED <<auditFile, callerPc, nextRec, loopVars, connVars, winVars, fetchVars, onceVars>>

\* file.Seek(0, 0); file.Truncate(0)
SaveTruncate ==
    /\ \E s \in Saving :
          /\ saver[s].pc = "truncate"
          /\ saver' = [saver EXCEPT ![s].pc = "encode"]
          /\ auditFile' = [auditFile EXCEPT ![FileOf(saver[s].kind)] = <<>>]
    /\ UNCHANGED <<callerPc, nextRec, loopVars, connVars, winVars, fetchVars, onceVars>>

\* encoder.Encode(append(existing, record)) at the start of the file
SaveEncode ==
    /\ \E s \in Saving :
          /\ saver[s].pc = "encode"
          /\ auditFile' = [auditFile EXCEPT ![FileOf(saver[s].kind)] =
                                              Append(saver[s].local, s)]
          /\ SaveReturns(s, TRUE)
    /\ UNCHANGED <<nextRec, loopVars, connVars, winVars, fetchVars, onceVars>>

\* ------------------------------------------- fetches of ExecuteBlobTransaction
\* wg.Wait() returns after one of the two goroutines called wg.Done()
JoinedEither(t) == t["nonce"].st = "done" \/ t["fees"].st = "done"

\* wg.Wait() of ExecuteBlobTransaction returns: wg.Add(2), and both
\* goroutines have run their deferred wg.Done()
Joined(t) == t["nonce"].st = "done" /\ t["fees"].st = "done"

\* wg.Wait() of suggestGasTipAndFeeCap returns
FeesJoined(t) == t["tip"].st = "done" /\ t["price"].st = "done"

\* a goroutine finishes its fetch with an error or an answer
Finish(t, err, val) ==
    task' = [task EXCEPT ![t] = [st |-> "done", err |-> err,
                                 val |-> IF err THEN 0 ELSE val]]

\* wg.Add(2) and the two go statements
ExecSpawn ==
    /\ execPc = "spawn"
    /\ execPc' = "wait"
    /\ task' = [task EXCEPT !["nonce"].st = "running", !["fees"].st = "running"]
    /\ UNCHANGED <<execRet, loopVars, connVars, winVars, auditVars, onceVars>>

\* wsClient.PendingNonceAt in the first goroutine
FetchNonce ==
    /\ task["nonce"].st = "running"
    /\ \E err \in BOOLEAN, val \in 0..MaxNonce : Finish("nonce", err, val)
    /\ UNCHANGED <<execPc, execRet, loopVars, connVars, winVars, auditVars, onceVars>>

\* suggestGasTipAndFeeCap, called in the second goroutine, starts its own two
FeesSpawn ==
    /\ task["fees"].st = "running"
    /\ task["tip"].st = "none"
    /\ task' = [task EXCEPT !["tip"].st = "running", !["price"].st = "running"]
    /\ UNCHANGED <<execPc, execRet, loopVars, connVars, winVars, auditVars, onceVars>>

\* client.SuggestGasTipCap
FetchTip ==
    /\ task["tip"].st = "running"
    /\ \E err \in BOOLEAN, val \in 0..MaxTip : Finish("tip", err, val)
    /\ UNCHANGED <<execPc, execRet, loopVars, connVars, winVars, auditVars, onceVars>>

\* client.SuggestGasPrice
FetchPrice ==
    /\ task["price"].st = "running"
    /\ \E err \in BOOLEAN, val \in GasPrices : Finish("price", err, val)
    /\ UNCHANGED <<execPc, execRet, loopVars, connVars, winVars, auditVars, onceVars>>

\* suggestGasTipAndFeeCap returns after its wg.Wait(): err1, else err2, else
\* both answers; the second goroutine stores them and finishes
FeesJoin ==
    /\ task["fees"].st = "running"
    /\ FeesJoined(task)
    /\ Finish("fees", task["tip"].err \/ task["price"].err, 1)
    /\ UNCHANGED <<execPc, execRet, loopVars, connVars, winVars, auditVars, onceVars>>

\* wg.Wait() of ExecuteBlobTransaction returns: err1 or err2 is returned, or
\* the call goes on to build the transaction
ExecJoin ==
    /\ execPc = "wait"
    /\ Joined(task)
    /\ IF task["nonce"].err
       THEN /\ execPc' = "returned"
            /\ execRet' = [err |-> "err1", tx |-> NoTx]
       ELSE IF task["fees"].err
       THEN /\ execPc' = "returned"
            /\ execRet' = [err |-> "err2", tx |-> NoTx]
       ELSE /\ execPc' = "build"
            /\ UNCHANGED execRet
    /\ UNCHANGED <<task, loopVars, connVars, winVars, auditVars, onceVars>>

\* the blob fee of the parent header, types.NewTx and auth.Signer, which can fail
ExecBuild ==
    /\ execPc = "build"
    /\ execPc' = "returned"
    /\ \E blobFee \in 1..MaxBlobFee, signed \in BOOLEAN :
          execRet' = IF signed
                     THEN [err |-> "none",
                           tx  |-> ExecuteBlobTransaction(task["nonce"].val, task["tip"].val,
                                                          task["price"].val, blobFee,
                                                          NUM_BLOBS)]
                     ELSE [err |-> "sign", tx |-> NoTx]
    /\ UNCHANGED <<task, loopVars, connVars, winVars, auditVars, onceVars>>

\* ---------------------------------------------------------------- getChainID
\* the Once runs its function again after a lookup that failed
OnceStateRetry(st, err) == IF st = "done" /\ err THEN "new" ELSE st

\* what a caller of chainIDOnce.Do finds: the function has not run, is
\* running in another caller, or has returned
OnceState(st, err) == st

\* a goroutine calls getChainID (from ExecuteBlobTransaction)
CallGetChainID ==
    /\ \E c \in Callers :
          /\ callPc[c] = "idle"
          /\ calls[c] < MaxCalls
          /\ callPc' = [callPc EXCEPT ![c] = "do"]
          /\ calls' = [calls EXCEPT ![c] = @ + 1]
    /\ UNCHANGED <<chainID, chainIDErr, chainIDOnce, lookups, chainLog,
                   loopVars, connVars, winVars, auditVars, fetchVars>>

\* chainIDOnce.Do: the first caller runs the function, a caller that arrives
\* while it runs waits, a caller that arrives later returns at once
OnceDo ==
    /\ \E c \in Callers :
          /\ callPc[c] = "do"
          /\ LET st == OnceState(chainIDOnce, chainIDErr)
             IN  \/ /\ st = "new"
                    /\ chainIDOnce' = "running"
                    /\ callPc' = [callPc EXCEPT ![c] = "lookup"]
                 \/ /\ st = "done"
                    /\ callPc' = [callPc EXCEPT ![c] = "return"]
                    /\ UNCHANGED chainIDOnce
    /\ UNCHANGED <<chainID, chainIDErr, lookups, calls, chainLog,
                   loopVars, connVars, winVars, auditVars, fetchVars>>

\* chainID, chainIDErr = client.NetworkID(ctx), inside the Once
NetworkID ==
    /\ \E c \in Callers :
          /\ callPc[c] = "lookup"
          /\ callPc' = [callPc EXCEPT ![c] = "return"]
    /\ \E id \in 0..MaxChain :
          /\ chainID' = id
          /\ chainIDErr' = (id = 0)
    /\ lookups' = lookups + 1
    /\ chainIDOnce' = "done"
    /\ UNCHANGED <<calls, chainLog, loopVars, connVars, winVars, auditVars, fetchVars>>

\* return chainID, chainIDErr; ExecuteBlobTransaction returns the error, if any
ReturnChainID ==
    /\ \E c \in Callers :
          /\ callPc[c] = "return"
          /\ callPc' = [callPc EXCEPT ![c] = "idle"]
          /\ chainLog' = Append(chainLog, [by |-> c, id |-> chainID, err |-> chainIDErr,
                                            after |-> lookups])
    /\ UNCHANGED <<chainID, chainIDErr, chainIDOnce, lookups, calls,
                   loopVars, connVars, winVars, auditVars, fetchVars>>

\* ------------------------------------------------------------ environment
\* the wall clock advances
Tick ==
    /\ UNCHANGED sideVars
    /\ Running
    /\ now < MaxTime
    /\ now' = now + 1
    /\ UNCHANGED <<subVars, lastDecayStart, bidderUp>>
    /\ UNCHANGED <<cfgVars, pc, header, idx, todo, curTx, curBlock, pendingTxs,
                   preconfCount, headNumber, accountNonce, receiptAns, blockAns,
                   nextHash, handled, roundKind, events, outstanding, lastTx,
                   prevTx, start, pass>>

\* the bidder node starts or stops answering SendBid with an error
BidderFlips ==
    /\ UNCHANGED sideVars
    /\ Running
    /\ bidderUp' = ~bidderUp
    /\ UNCHANGED <<subVars, now, lastDecayStart>>
    /\ UNCHANGED <<cfgVars, pc, header, idx, todo, curTx, curBlock, pendingTxs,
                   preconfCount, headNumber, accountNonce, receiptAns, blockAns,
                   nextHash, handled, roundKind, events, outstanding, lastTx,
                   prevTx, start, pass>>

\* the select loop of main; checkPendingTxs is never entered from Init, where
\* pendingTxs is empty and nothing assigns to it
NextLoop ==
    \/ ReceiveHeader
    \/ OriginatePart011
    \/ OriginateSendblob
    \/ TimerFires
    \/ NonceAdvance

Next ==
    \/ NextLoop
    \/ CheckRange
    \/ CheckClient

\* the program as main starts it
Spec == Init /\ [][NextLoop]_vars

\* the loop entered with entries in the maps checkPendingTxs works on
SpecCheck == InitCheck /\ [][Next]_vars

\* SpecCheck where a running checkPendingTxs keeps taking its next step
SpecCheckLive == SpecCheck /\ WF_vars(CheckRange) /\ WF_vars(CheckClient)

\* SpecCheck with checkPendingTxs also called a second time in a round
SpecTwice == InitCheck /\ [][Next \/ CheckAgain]_vars


\* one configuration of the select loop, not started
LoopIdle ==
    /\ variant \in {"part_011", "sendblob"}
    /\ usePayload = FALSE
    /\ offset = 1
    /\ rpcEndpointsList = <<"up">>
    /\ rpcClients = <<1>>
    /\ LoopInit
    /\ pendingTxs = EmptyMap
    /\ preconfCount = EmptyMap
    /\ nextHash = 1
    /\ outstanding = {}
    /\ start = [pending |-> EmptyMap, count |-> EmptyMap, nonce |-> 0]

\* the loop of one configuration as main starts it; the subscription is
\* handled the same way in every configuration
InitSub ==
    /\ LoopIdle
    /\ SideIdle

\* the loop of part_011 idle between two head events
InitFees ==
    /\ LoopIdle
    /\ SideIdle
    /\ variant = "part_011"

\* successive calls of ExecuteBlobTransaction; the fee fields do not depend
\* on the configuration
SpecFees == InitFees /\ [][BuildAttempt \/ NonceAdvance]_vars

\* the select loop with a head subscription that can fail
NextSub ==
    \/ NextLoop
    \/ SubscriptionFails
    \/ SubErr
    \/ connectWSClient
    \/ reconnectWSClient

SpecSub == InitSub /\ [][NextSub]_vars

\* SpecSub where a running connectWSClient keeps making its next dial
SpecSubLive == SpecSub /\ WF_vars(connectWSClient)

\* a call connectRPCClientWithRetries(endpoint, maxRetries, timeout)
InitConn ==
    /\ LoopIdle
    /\ connPc = "dial"
    /\ maxRetries \in 0..MAX_RPC_RETRIES
    /\ connI = 0
    /\ connLog = <<>>
    /\ connSleeps = <<>>
    /\ connRet = "none"
    /\ WindowIdle
    /\ TasksIdle

\* save calls triggered one after the other, each running as its call says
InitAudit ==
    /\ LoopIdle
    /\ variant = "part_011"
    /\ ConnIdle
    /\ WindowIdle
    /\ TasksIdle

NextAudit ==
    \/ TriggerSave
    \/ SaveOpen
    \/ SaveDecode
    \/ SaveTruncate
    \/ SaveEncode

SpecAudit == InitAudit /\ [][NextAudit]_vars

\* one call of ExecuteBlobTransaction after getChainID has returned
InitFetch ==
    /\ LoopIdle
    /\ variant = "part_011"
    /\ ConnIdle
    /\ WindowIdle
    /\ AuditIdle
    /\ OnceIdle
    /\ execPc = "spawn"
    /\ task = [t \in Tasks |-> NoTask]
    /\ execRet = [err |-> "none", tx |-> NoTx]

NextFetch ==
    \/ ExecSpawn
    \/ FetchNonce
    \/ FeesSpawn
    \/ FetchTip
    \/ FetchPrice
    \/ FeesJoin
    \/ ExecJoin
    \/ ExecBuild

SpecFetch == InitFetch /\ [][NextFetch]_vars

\* goroutines calling getChainID
NextOnce ==
    \/ CallGetChainID
    \/ OnceDo
    \/ NetworkID
    \/ ReturnChainID

SpecOnce == InitAudit /\ [][NextOnce]_vars

SpecConn == InitConn /\ [][connectRPCClientWithRetries \/ RetriesExhausted]_vars

\* the start of a deposit/withdraw workflow
InitWindow ==
    /\ LoopIdle
    /\ variant = "part_011"
    /\ connPc = "idle"
    /\ maxRetries = MAX_RPC_RETRIES
    /\ connI = 0
    /\ connLog = <<>>
    /\ connSleeps = <<>>
    /\ connRet = "none"
    /\ wVariant \in Workflows
    /\ wPc = "getMin"
    /\ minDeposit = 0
    /\ currentWindow \in IF wVariant = "bidwindowmevcommit" THEN 1..MaxWindow ELSE {0}
    /\ depositWindow = 0
    /\ depositedAmount = 0
    /\ withdrawWindow = 0
    /\ TasksIdle

NextWindow ==
    \/ GetMinDeposit
    \/ DepositMinBidAmount
    \/ depositForSpecificWindow
    \/ WithdrawFunds

SpecWindow == InitWindow /\ [][NextWindow]_vars

\* SpecCheck with a wall clock that advances
SpecClock == InitCheck /\ [][Next \/ Tick]_vars

\* SpecCheck with a bidder node that can reject bids
SpecBid == InitCheck /\ [][Next \/ BidderFlips]_vars

\* ------------------------------------------------------------------ claims
\* positions of the current round's events of one kind
EventsOf(kind) == {i \in DOMAIN events : events[i].kind = kind}

\* positions of the current round's bids for one transaction
BidsFor(tx) == {i \in EventsOf("bid") : events[i].tx = tx}

\* a head event took the branch `kind` and its handler has returned
RoundDone(kind) == pc = "select" /\ roundKind = kind /\ pass = 1

\* every observer answered not-found for transaction h in this round
AllNotFound(h) == \A c \in Clients : receiptAns[<<h, c>>] = "notfound"

\* no observer returned a receipt for transaction h in this round
NoReceipt(h) == \A c \in Clients : receiptAns[<<h, c>>] # "receipt"

\* C1: at most one transaction originated by the loop is outstanding: the
\* pending map holds at most one entry and a head event originates no new
\* transaction while an earlier one is outstanding.
C1_AtMostOneOutstanding ==
    /\ Cardinality(DOMAIN pendingTxs) <= 1
    /\ Cardinality(outstanding) <= 1

\* C2: a head event for block N handled with no entry pending builds exactly
\* one transaction, records exactly one pending entry for it with counter 1
\* and sends exactly one bid, valid for block N + offset, whatever the number
\* of endpoints.
C2_OriginateOnce ==
    (/\ RoundDone("originate")
     /\ \E i \in DOMAIN rpcEndpointsList : rpcEndpointsList[i] # ""
     /\ \A i \in DOMAIN events : events[i].res \notin {"err", "underpriced"})
    => /\ Cardinality(EventsOf("build")) = 1
       /\ Cardinality(EventsOf("bid")) = 1
       /\ \A i \in EventsOf("bid") : events[i].block = header + offset
       /\ \A i \in EventsOf("build") :
             /\ DOMAIN pendingTxs = {events[i].tx}
             /\ Get(preconfCount, events[i].tx) = 1

\* C3: a head event handled while an entry is pending, with no receipt on any
\* observer and the chain at block B beyond the entry's origination block,
\* raises the entry's counter by exactly one and sends exactly one bid for
\* it, valid for B + 1, whatever the number of observers.
C3_OneResendPerRound ==
    RoundDone("check") =>
       \A h \in DOMAIN start.pending :
          \A B \in {headNumber, headNumber + 1} :
             (/\ Clients # {}
              /\ AllNotFound(h)
              /\ \A c \in Clients : blockAns[c] = B
              /\ B > start.pending[h]
              /\ start.count[h] + 1 < MAX_PRECONF_ATTEMPTS)
             => /\ Get(preconfCount, h) = start.count[h] + 1
                /\ Cardinality(BidsFor(h)) = 1
                /\ \A i \in BidsFor(h) : events[i].block = B + 1

\* C4: an entry for which some observer returned a receipt is, at the end of
\* the round, in neither the pending map nor the counter map, so that the
\* next head event originates a new transaction.
C4_ConfirmedRemoved ==
    RoundDone("check") =>
       \A h \in DOMAIN start.pending :
          (\E c \in Clients : receiptAns[<<h, c>>] = "receipt")
          => /\ h \notin DOMAIN pendingTxs
             /\ h \notin DOMAIN preconfCount

C6_ShortCircuit ==
    \A i \in EventsOf("confirmed") :
       \A j \in DOMAIN events : j > i => events[j].tx # events[i].tx

\* C7: a second run of checkPendingTxs in the same round, with the same
\* answers, leaves both maps as the first run left them and sends no bid.
C7_Idempotent ==
    (pc = "select" /\ pass = 2)
    => /\ pendingTxs = start.pending
       /\ preconfCount = start.count
       /\ EventsOf("bid") = {}

\* C8: an entry whose nonce the account's on-chain nonce has passed, and for
\* which no observer has a receipt, is removed by the round and gets no bid.
\* (The entries of the pending map were built with nonce 0.)
C8_SupersededRemoved ==
    RoundDone("check") =>
       \A h \in DOMAIN start.pending :
          (start.nonce > 0 /\ Clients # {} /\ NoReceipt(h))
          => /\ h \notin DOMAIN pendingTxs
             /\ BidsFor(h) = {}

\* C9: of two successive attempts with the same nonce the later has a strictly
\* greater gas fee cap and no lower gas tip cap and blob fee cap.
C9_FeesEscalate ==
    (prevTx.nonce >= 0 /\ prevTx.nonce = lastTx.nonce)
    => /\ lastTx.gasFeeCap > prevTx.gasFeeCap
       /\ lastTx.gasTipCap >= prevTx.gasTipCap
       /\ lastTx.blobFeeCap >= prevTx.blobFeeCap

\* C10: a submission rejected as replacement-underpriced is followed by a
\* rebuilt transaction and its resubmission, never directly by a bid.
C10_ResubmitBeforeBid ==
    \A i \in EventsOf("bundle") :
       events[i].res = "underpriced"
       => /\ i < Len(events)
          /\ events[i + 1].kind = "build"

\* C11: a transaction whose building or bundle submission returned an error
\* (other than replacement-underpriced) gets no bid in that round and no
\* entry in the pending map or the counter map.
C11_NoBidAfterFailure ==
    /\ \A i \in EventsOf("bundle") :
          events[i].res = "err"
          => /\ BidsFor(events[i].tx) = {}
             /\ events[i].tx \notin DOMAIN pendingTxs
             /\ events[i].tx \notin DOMAIN preconfCount
    /\ \A i \in EventsOf("build") :
          events[i].res = "err"
          => \A j \in EventsOf("bid") : j > i => events[j].who # events[i].who

\* no header Number occurs twice in the log of handled headers
NoDup(log) == \A i, j \in DOMAIN log : i # j => log[i] # log[j]

C13_OnlyTimerStops == pc \notin {"crashed", "exited", "critical"}

C16_CurrentSubscriptionOnly ==
    pc \in {"originate", "check"} => headerFrom = sub

\* C16 witness: a head event of a subscription made by a reconnection is
\* being handled
C16_Witness == pc = "originate" /\ headerFrom > 1 /\ headerFrom = sub

\* C18: connectWSClient returns only a client with a nil error, sleeps
\* RECONNECT_INTERVAL after every failed dial, never gives up, and returns
\* once a dial succeeds.
C18_DialsUntilConnected ==
    /\ [](wsRet.returned => (wsRet.client /\ ~wsRet.err))
    /\ [](wsSlept = dials * RECONNECT_INTERVAL)
    /\ [][pc = "dial" => pc' \in {"dial", "subscribe"}]_vars
    /\ (pc = "dial") ~> (pc = "subscribe")

\* C18 witness: connectWSClient returned a client after a failed dial
C18_Witness == pc = "subscribe" /\ dials > 0 /\ wsRet.returned /\ wsRet.client

\* the bids the step appends to the round's events that SendBid rejected
FailedBids(old, new) ==
    {i \in DOMAIN new : /\ i > Len(old)
                        /\ new[i].kind = "bid"
                        /\ new[i].ack = "failed"}

\* C19: a step in which SendBid fails leaves the loop running and the pending
\* map as an accepted bid would: no entry is added and none removed, except
\* the entry whose resend reached MAX_PRECONF_ATTEMPTS.
C19_BidFailureLogged ==
    [][(Len(events') > Len(events) /\ FailedBids(events, events') # {})
       => /\ pc' \in {"select", "originate", "check"}
          /\ \A i \in FailedBids(events, events') :
                pendingTxs' =
                   IF /\ events'[i].tx \in DOMAIN pendingTxs
                      /\ Get(preconfCount, events'[i].tx) + 1 >= MAX_PRECONF_ATTEMPTS
                   THEN Delete(pendingTxs, events'[i].tx)
                   ELSE pendingTxs]_vars

\* C19 witness: a resend was rejected, the entry is still pending and the
\* round has ended
C19_Witness ==
    /\ RoundDone("check")
    /\ \E i \in EventsOf("bid") :
          /\ events[i].ack = "failed"
          /\ events[i].tx \in DOMAIN pendingTxs

\* every observer's receipt lookup for h failed in this round
AllError(h) == \A c \in Clients : receiptAns[<<h, c>>] = "error"

\* C20: in a round every observer is polled for every entry, whatever the
\* earlier observers answered, and an entry for which every lookup failed
\* keeps its origination block and its counter and gets no bid.
C20_LookupErrorsSkipped ==
    RoundDone("check") =>
       \A h \in DOMAIN start.pending :
          /\ \A c \in Clients :
                \E i \in EventsOf("poll") : events[i].tx = h /\ events[i].who = c
          /\ (Clients # {} /\ AllError(h))
             => /\ h \in DOMAIN pendingTxs
                /\ pendingTxs[h] = start.pending[h]
                /\ Get(preconfCount, h) = start.count[h]
                /\ BidsFor(h) = {}

\* C20 witness: a round with two observers whose lookups for an entry both
\* failed, the second polled after the first
C20_Witness ==
    /\ RoundDone("check")
    /\ Cardinality(Clients) = 2
    /\ \E h \in DOMAIN start.pending :
          /\ AllError(h)
          /\ \E i \in EventsOf("poll") : events[i].tx = h /\ events[i].who = 2

\* C15: a withdrawal is issued only after a deposit succeeded, and it names
\* the window of that deposit; after a failed minimum-deposit lookup of the
\* deposit step or a failed deposit no withdrawal is issued.
C15_WithdrawAfterDeposit ==
    withdrawWindow # 0
    => /\ depositWindow # 0
       /\ withdrawWindow = depositWindow

\* the attempts of the connector call that failed
FailedDials == {k \in DOMAIN connLog : connLog[k] # "ok"}

\* C17: connectRPCClientWithRetries dials at most maxRetries times, returns
\* the client of the first successful dial without dialing again, sleeps
\* RECONNECT_INTERVAL * 2^i after the failed attempt i, and after maxRetries
\* failed attempts returns nil instead of ending the process.
C17_BoundedRetries ==
    /\ Len(connLog) <= maxRetries
    /\ \A k \in DOMAIN connLog :
          connLog[k] = "ok"
          => /\ k = Len(connLog)
             /\ connPc = "returned"
             /\ connRet = "client"
    /\ Len(connSleeps) = Cardinality(FailedDials)
    /\ \A k \in DOMAIN connSleeps : connSleeps[k] = RECONNECT_INTERVAL * Pow2(k - 1)
    /\ connPc # "critical"
    /\ (connPc # "dial" /\ Cardinality(FailedDials) = Len(connLog))
       => /\ Len(connLog) = maxRetries
          /\ connPc = "returned"
          /\ connRet = "nil"

\* C21: the kind of identifier a bid carries is fixed by the configured mode
\* for the whole run: with use-payload set every bid, initial or resent,
\* carries the payload and no bundle is submitted; with use-payload unset
\* every bid carries the hash and, in part_011, the bundle for the transaction
\* was submitted before its first bid.
C21_ModeFixed ==
    /\ \A i \in EventsOf("bid") :
          events[i].res = IF usePayload THEN "payload" ELSE "hash"
    /\ usePayload => EventsOf("bundle") = {}
    /\ (~usePayload /\ variant = "part_011" /\ roundKind = "originate")
       => \A i \in EventsOf("bid") :
             \E j \in EventsOf("bundle") : j < i /\ events[j].tx = events[i].tx

\* C22: every transaction ExecuteBlobTransaction builds has a gas fee cap
\* strictly greater than its gas tip cap, and the adjusted tip the fee cap is
\* derived from is at most the 10 gwei ceiling.
C22_FeeCapAboveTip ==
    lastTx.nonce >= 0
    => /\ lastTx.gasFeeCap > lastTx.gasTipCap
       /\ lastTx.gasFeeCap > lastTx.gasTipCapAdjusted
       /\ lastTx.gasTipCapAdjusted <= maxPriorityFee

\* C23: the blob fee cap of a built transaction is strictly greater than the
\* blob fee computed for the parent header.
C23_BlobFeeCapAboveFee ==
    lastTx.nonce >= 0 => lastTx.blobFeeCap > lastTx.blobFee

\* a transaction whose blob fee cap got more than the added unit from the scaling
C23_Witness ==
    /\ lastTx.nonce >= 0
    /\ lastTx.blobFeeCap > lastTx.blobFee + 1

\* the records of the save calls on file f that returned after writing
Saved(f) == {s \in DOMAIN saver : FileOf(saver[s].kind) = f /\ saver[s].ok}

\* C24: a save that returns leaves its file with all records saved before
\* plus the new one, under every interleaving of save calls, and the caller
\* never waits for a save: whenever no save call on a file is running, the
\* file holds the record of every save call that wrote to it.
C24_SavesKeepRecords ==
    /\ callerPc # "blocked"
    /\ \A f \in AuditFiles :
          (\A s \in Saving : FileOf(saver[s].kind) # f)
          => {auditFile[f][i] : i \in DOMAIN auditFile[f]} = Saved(f)

\* the fetch goroutines that have been started and have not finished
RunningTasks == {t \in Tasks : task[t].st = "running"}

\* C25: ExecuteBlobTransaction uses the fetched nonce and fees only after both
\* fetches have finished: while it builds and when it has returned no fetch
\* goroutine is running, a failed fetch makes it return that error and no
\* transaction, and a returned transaction carries the fetched nonce.
C25_JoinBeforeUse ==
    /\ execPc \in {"build", "returned"} => RunningTasks = {}
    /\ (execPc = "returned" /\ task["nonce"].err) => execRet = [err |-> "err1", tx |-> NoTx]
    /\ (execPc = "returned" /\ ~task["nonce"].err /\ task["fees"].err)
       => execRet = [err |-> "err2", tx |-> NoTx]
    /\ (task["tip"].err \/ task["price"].err) => execRet.tx = NoTx
    /\ execRet.tx # NoTx
       => /\ \A t \in Tasks : task[t].st = "done" /\ ~task[t].err
          /\ execRet.tx.nonce = task["nonce"].val
          /\ execRet.tx.gasTipCapAdjusted = GasTipCapAdjusted(task["tip"].val, NUM_BLOBS)

\* a call that returned a transaction, and one that returned the fee error
C25_Witness ==
    /\ execPc = "returned"
    /\ \/ execRet.tx # NoTx /\ execRet.tx.nonce > 0
       \/ execRet.err = "err2" /\ task["nonce"].st = "done"

\* C29: getChainID looks the chain ID up at most once per process, also when
\* called concurrently, and every call returns the value and error of that
\* one lookup: a failed lookup is not retried and every later call returns
\* the same error.
C29_LookupOnce ==
    /\ lookups <= 1
    /\ \A i \in DOMAIN chainLog :
          /\ chainLog[i].after = 1
          /\ chainLog[i].id = chainID
          /\ chainLog[i].err = chainIDErr
          /\ chainLog[i].id = chainLog[1].id
          /\ chainLog[i].err = chainLog[1].err

\* two callers got the error of one failed lookup, one of them twice
C29_Witness ==
    /\ Len(chainLog) >= 3
    /\ chainLog[1].err
    /\ \E i, j \in DOMAIN chainLog : chainLog[i].by # chainLog[j].by

\* C27: after every completed loop iteration every transaction that has an
\* attempt counter also has a pending entry.
C27_CountersArePending ==
    pc = "select" => DOMAIN preconfCount \subseteq DOMAIN pendingTxs

\* the positions in this round's events where transaction tx was retired
Retired(tx) ==
    {i \in EventsOf("confirmed") \cup EventsOf("exhausted") : events[i].tx = tx}

\* C28: no bid is sent for a transaction after it has been confirmed or
\* exhausted, and the bids sent for it never number more than
\* MAX_PRECONF_ATTEMPTS: here, within one round no bid follows the
\* retirement of its transaction, and a counter never exceeds the maximum.
C28_NoBidAfterRetired ==
    /\ \A h \in DOMAIN preconfCount : preconfCount[h] <= MAX_PRECONF_ATTEMPTS
    /\ \A j \in EventsOf("bid") :
          \A i \in Retired(events[j].tx) : j < i

\* in the current round some observer answers the receipt lookup for h: with
\* a receipt, or with not-found while the chain is past the origination block
Answered(h) ==
    \E c \in Clients :
       \/ receiptAns[<<h, c>>] = "receipt"
       \/ receiptAns[<<h, c>>] = "notfound" /\ blockAns[c] > start.pending[h]

C30_FailedEndpointSkipped ==
    /\ \A i \in EventsOf("poll") :
          rpcEndpointsList[rpcClients[events[i].who]] # "down"
    /\ \A i \in EventsOf("bundle") :
          rpcEndpointsList[events[i].who] # "down"

====
